---- MODULE Spec2Model ----
(***************************************************************************)
(* Novacast backend: the authentication core.                              *)
(*                                                                         *)
(* The users table (Credential Store), the request handlers registerUser   *)
(* and loginUser of controllers/auth/auth.controller.ts and the            *)
(* availability checks of controllers/users/user-validation.controller.ts, *)
(* run by concurrent requests in one of the runtime environments of        *)
(* config/env.ts.  A handler runs without interruption from one `await` to *)
(* the next; other requests interleave only at the awaits.                 *)
(***************************************************************************)
EXTENDS Integers, Sequences, FiniteSets, TLC

(***************************************************************************)
(* Bounds of the model.                                                    *)
(***************************************************************************)
\* number of requests that can be in flight at the same time
NumReqs == 2
\* number of requests accepted in one run
MaxOps == 3
\* length of a string that is longer than a column is wide
LongLen == 300
\* number of distinct salts the password hasher can draw
NumSalts == 1

Reqs == 1..NumReqs
Salts == {ToString(i) : i \in 1..NumSalts}

(***************************************************************************)
(* JSON values of a parsed request body.  A string is a sequence of        *)
(* characters; a field that is not in the body reads as undefined.         *)
(***************************************************************************)
Undefined == [t |-> "undefined", s |-> <<>>, n |-> 0]
Str(s) == [t |-> "string", s |-> s, n |-> 0]
Num(n) == [t |-> "number", s |-> <<>>, n |-> n]

IsString(v) == v.t = "string"

\* (a test for absence only)
FalsyOnlyUndefined(v) == v.t = "undefined"

\* JavaScript truthiness: `!v` is true for undefined, "" and 0
Falsy(v) ==
  \/ v.t = "undefined"
  \/ v.t = "string" /\ v.s = <<>>
  \/ v.t = "number" /\ v.n = 0

IsSpace(c) == c = " "

\* String.prototype.trim on the characters of a string
RECURSIVE TrimStart(_)
TrimStart(s) ==
  IF s # <<>> /\ IsSpace(Head(s)) THEN TrimStart(Tail(s)) ELSE s

RECURSIVE TrimEnd(_)
TrimEnd(s) ==
  IF s # <<>> /\ IsSpace(s[Len(s)]) THEN TrimEnd(SubSeq(s, 1, Len(s) - 1)) ELSE s

Trim(s) == TrimEnd(TrimStart(s))

\* `v.trim() === ''` for a string v
TrimsToEmpty(v) == Trim(v.s) = <<>>

\* `v.trim` is not a function unless v is a string: calling it throws
TrimThrows(v) == ~IsString(v)

\* node-postgres sends a query parameter as text
RECURSIVE Digits(_)
Digits(n) ==
  IF n < 10 THEN <<ToString(n)>> ELSE Digits(n \div 10) \o Digits(n % 10)

PgText(v) == IF v.t = "number" THEN Digits(v.n) ELSE v.s

(***************************************************************************)
(* Password hasher (bcryptjs).  A hash carries its version and cost, the   *)
(* salt it was made with and the digest of the password under that salt;   *)
(* the digest is one-way and stands here for the password it was made of.  *)
(***************************************************************************)
HashPrefix == "$2a$10$"

\* (a hasher that leaves the password as it is)
BcryptHashPlain(password, salt) == password

BcryptHash(password, salt) == <<HashPrefix, salt>> \o password

SaltOf(hash) == hash[2]

\* bcrypt.compare answers false for a string that is no bcrypt hash
IsHash(hash) == Len(hash) >= 2 /\ hash[1] = HashPrefix

\* bcrypt.compare hashes the candidate with the salt of the stored hash
BcryptCompare(password, hash) ==
  IsHash(hash) /\ BcryptHash(password, SaltOf(hash)) = hash

\* bcrypt.compare rejects ("Illegal arguments") unless both are strings
BcryptCompareThrows(v) == ~IsString(v)

(***************************************************************************)
(* State.                                                                  *)
(***************************************************************************)
VARIABLES
  env,             \* NODE_ENV of the process
  users,           \* the rows of the users table
  nextId,          \* next value of the sequence behind users.id
  ops,             \* requests accepted since the start of the run
  op,              \* per request: the handler that runs it
  body,            \* per request: req.body
  pc,              \* per request: the await the handler is suspended at
  query,           \* per request: how its pool.query call settled
  res              \* per request: the response sent

vars == <<env, users, nextId, ops, op, body, pc, query, res>>

\* the values of NODE_ENV the process starts with
Envs == {"dev", "prod", "test"}

\* NODE_ENVIRONMENT.isDev
IsDev == env = "dev"

\* the promise of pool.query: not called, resolved, or rejected with error e
NoQuery == [state |-> "none", error |-> <<>>]
Resolved == [state |-> "resolved", error |-> <<>>]
Rejected(e) == [state |-> "rejected", error |-> e]

NoBody == [none |-> Undefined]
NoRes == [status |-> 0, body |-> [pending |-> TRUE]]

Response(status, json) == [status |-> status, body |-> json]

\* the text of a message: the pieces it is concatenated from
Text(literal) == <<literal>>

\* string concatenation `a + b`
Concat(a, b) == a \o b

\* errors node-postgres raises, as `"" + e` prints them: name, then message
ConnectionError == <<"Error: ", "connect ECONNREFUSED">>
UniqueViolation == <<"error: ", "duplicate key value violates unique constraint">>
\* error bcryptjs raises for the candidate password v: typeof v, typeof hash
IllegalArguments(v) == <<"Error: ", "Illegal arguments: ", v.t, ", string">>

\* `error.message` of an Error: what follows the name
ErrorMessage(e) == Tail(e)

Init ==
  /\ env \in Envs
  /\ users = {}
  /\ nextId = 1
  /\ ops = 0
  /\ op = [r \in Reqs |-> "none"]
  /\ body = [r \in Reqs |-> NoBody]
  /\ pc = [r \in Reqs |-> "idle"]
  /\ query = [r \in Reqs |-> NoQuery]
  /\ res = [r \in Reqs |-> NoRes]

(***************************************************************************)
(* The Credential Store: table users(id SERIAL PRIMARY KEY, username       *)
(* UNIQUE, email UNIQUE, password_hash, handle UNIQUE, created_at,         *)
(* updated_at DEFAULT CURRENT_TIMESTAMP).                                  *)
(***************************************************************************)
\* CURRENT_TIMESTAMP while the store executes the INSERT that draws `id`
CurrentTimestamp(id) == <<"time", id>>

\* width of the VARCHAR columns
VarcharLen == 255

\* a string does not fit a VARCHAR(255) column: it is longer and what exceeds
\* the width is not all spaces
TooLong(s) ==
  /\ Len(s) > VarcharLen
  /\ \E i \in (VarcharLen + 1)..Len(s) : ~IsSpace(s[i])

\* what a VARCHAR(255) column keeps of a string that fits: spaces beyond the
\* width are cut off
VarcharFit(s) == IF Len(s) > VarcharLen THEN SubSeq(s, 1, VarcharLen) ELSE s

\* (a row made of the trimmed values)
NewRowTrimmed(username, email, hash, handle) ==
  [id |-> nextId, username |-> Trim(username), email |-> Trim(email),
   password_hash |-> hash, handle |-> Trim(handle),
   created_at |-> CurrentTimestamp(nextId),
   updated_at |-> CurrentTimestamp(nextId)]

\* the row an INSERT makes: id from the sequence, both timestamps by default
NewRow(username, email, hash, handle) ==
  [id |-> nextId, username |-> VarcharFit(username), email |-> VarcharFit(email),
   password_hash |-> hash, handle |-> VarcharFit(handle),
   created_at |-> CurrentTimestamp(nextId),
   updated_at |-> CurrentTimestamp(nextId)]

\* (a table whose handle column is not UNIQUE)
ViolatesUniqueButHandle(table, row) ==
  \E u \in table : u.username = row.username \/ u.email = row.email

\* (a table whose email column is not UNIQUE)
ViolatesUniqueButEmail(table, row) ==
  \E u \in table : u.username = row.username \/ u.handle = row.handle

\* (a table whose password_hash column is UNIQUE as well)
ViolatesUniqueOrHash(table, row) ==
  \E u \in table :
    \/ u.username = row.username
    \/ u.email = row.email
    \/ u.handle = row.handle
    \/ u.password_hash = row.password_hash

\* (a table whose username column is not UNIQUE)
ViolatesUniqueButUsername(table, row) ==
  \E u \in table : u.email = row.email \/ u.handle = row.handle

\* the UNIQUE constraints of the table, checked by the store on INSERT
ViolatesUnique(table, row) ==
  \E u \in table :
    \/ u.username = row.username
    \/ u.email = row.email
    \/ u.handle = row.handle

ValueTooLong == <<"error: ", "value too long for type character varying(255)">>

NoError == <<>>

\* (columns that take a string of any length)
InsertErrorUnlimited(table, username, email, handle, row) ==
  IF ViolatesUnique(table, row) THEN UniqueViolation ELSE NoError

\* the error with which the store refuses an INSERT of these values, if it
\* does: the values are fitted to their columns before the row is checked
\* against the UNIQUE constraints
InsertError(table, username, email, handle, row) ==
  IF TooLong(username) \/ TooLong(email) \/ TooLong(handle) THEN ValueTooLong
  ELSE IF ViolatesUnique(table, row) THEN UniqueViolation
  ELSE NoError

\* the values the sequence can have after an INSERT refused with error e:
\* a row that violates a constraint has drawn its id; whether a value that
\* does not fit is refused before or after the id is drawn is not fixed
SequenceAfter(e) ==
  IF e = ValueTooLong THEN {nextId, nextId + 1} ELSE {nextId + 1}

\* pool.query can reject whenever the store cannot be reached or answers
\* with an error of its own; the statement then has no effect
QueryFails == TRUE

\* SELECT * FROM users WHERE email = $1 OR username = $1
SelectByIdentifier(table, text) ==
  {u \in table : u.email = text \/ u.username = text}

\* (a lookup that consults the username whatever the kind)
SelectByUsernameColumn(table, column, text) ==
  {u \in table : u.username = text}

\* (a lookup that compares the newest row only)
SelectByColumnNewest(table, column, text) ==
  {u \in table : u[column] = text /\ \A w \in table : w.id <= u.id}

\* SELECT <column> FROM users WHERE <column> = $1
SelectByColumn(table, column, text) ==
  {u \in table : u[column] = text}

(***************************************************************************)
(* Request bookkeeping shared by the handlers.                             *)
(***************************************************************************)
\* a request arrives and its handler is called with the parsed body
Accept(r, handler, b) ==
  /\ pc[r] = "idle"
  /\ ops < MaxOps
  /\ ops' = ops + 1
  /\ op' = [op EXCEPT ![r] = handler]
  /\ body' = [body EXCEPT ![r] = b]
  /\ UNCHANGED <<env, query>>

\* res.status(..).json(..), which ends the handler
Send(r, response) ==
  /\ res' = [res EXCEPT ![r] = response]
  /\ pc' = [pc EXCEPT ![r] = "done"]

\* an exception leaves the async handler: the handler sends nothing, and
\* what the client sees is up to the framework (nothing, or its own 500 page)
FrameworkError == Response(500, [html |-> Text("TypeError")])

Escape(r) ==
  /\ res' \in {[res EXCEPT ![r] = NoRes], [res EXCEPT ![r] = FrameworkError]}
  /\ pc' = [pc EXCEPT ![r] = "escaped"]

Suspend(r, at) ==
  /\ pc' = [pc EXCEPT ![r] = at]
  /\ UNCHANGED res

\* the handler returns without having sent anything
Return(r) ==
  /\ pc' = [pc EXCEPT ![r] = "returned"]
  /\ UNCHANGED res

\* `await pool.query(..)` settles as `outcome`
Settle(r, outcome) == query' = [query EXCEPT ![r] = outcome]

(***************************************************************************)
(* registerUser                                                            *)
(***************************************************************************)
RegisterFields == <<"username", "email", "password", "handle">>

\* `!username || !email || !password || !handle`
AnyFalsy(b) == \E i \in 1..Len(RegisterFields) : Falsy(b[RegisterFields[i]])

\* `username.trim() === '' || email.trim() === '' || ...`, left to right:
\* "throw" when a call of trim throws before a field trims to empty,
\* "empty" when a field trims to empty first, "ok" when neither happens
RECURSIVE TrimChain(_, _)
TrimChain(b, i) ==
  IF i > Len(RegisterFields) THEN "ok"
  ELSE IF TrimThrows(b[RegisterFields[i]]) THEN "throw"
  ELSE IF TrimsToEmpty(b[RegisterFields[i]]) THEN "empty"
  ELSE TrimChain(b, i + 1)

AllFieldsRequired == Response(400, [message |-> Text("All fields are required")])

FieldsCannotBeEmpty == Response(400, [message |-> Text("Fields cannot be empty")])

UserCreated == Response(201, [message |-> Text("User created successfully")])

\* (the failure reported under `message`)
RegisterFailureAsMessage(e) == Response(500, [message |-> Concat(Text(""), e)])

\* `catch (e) { res.status(500).json({ error: "" + e }) }`
RegisterFailure(e) == Response(500, [error |-> Concat(Text(""), e)])

\* the handler up to its first await (`await bcrypt.hash`)
RegisterRecv(r, b) ==
  /\ Accept(r, "register", b)
  /\ IF AnyFalsy(b)
       THEN Send(r, AllFieldsRequired)
     ELSE IF TrimChain(b, 1) = "throw"
       THEN Escape(r)
     ELSE IF TrimChain(b, 1) = "empty"
       THEN Send(r, FieldsCannotBeEmpty)
     ELSE Suspend(r, "store")
  /\ UNCHANGED <<users, nextId>>

\* (an INSERT .. ON CONFLICT DO UPDATE: the new row replaces its rivals)
RegisterStoreUpsert(r) ==
  /\ pc[r] = "store"
  /\ op[r] = "register"
  /\ \E salt \in Salts :
       LET hashedPassword == BcryptHash(body[r].password.s, salt)
           row == NewRow(body[r].username.s, body[r].email.s,
                         hashedPassword, body[r].handle.s)
           rivals == {u \in users : ViolatesUnique({u}, row)}
       IN  \/ /\ QueryFails
              /\ Settle(r, Rejected(ConnectionError))
              /\ Send(r, RegisterFailure(ConnectionError))
              /\ UNCHANGED <<users, nextId>>
           \/ /\ Settle(r, Resolved)
              /\ users' = (users \ rivals) \cup {row}
              /\ nextId' = nextId + 1
              /\ Send(r, UserCreated)
  /\ UNCHANGED <<env, ops, op, body>>

\* bcrypt.hash(password, 10) has resolved (it touches nothing shared), the
\* INSERT is executed by the store and the handler answers
RegisterStore(r) ==
  /\ pc[r] = "store"
  /\ op[r] = "register"
  /\ \E salt \in Salts :
       LET hashedPassword == BcryptHash(body[r].password.s, salt)
           row == NewRow(body[r].username.s, body[r].email.s,
                         hashedPassword, body[r].handle.s)
           e == InsertError(users, body[r].username.s, body[r].email.s,
                            body[r].handle.s, row)
       IN  \/ /\ QueryFails
              /\ Settle(r, Rejected(ConnectionError))
              /\ Send(r, RegisterFailure(ConnectionError))
              /\ UNCHANGED <<users, nextId>>
           \/ /\ e # NoError
              /\ Settle(r, Rejected(e))
              /\ Send(r, RegisterFailure(e))
              /\ nextId' \in SequenceAfter(e)
              /\ UNCHANGED users
           \/ /\ e = NoError
              /\ Settle(r, Resolved)
              /\ users' = users \cup {row}
              /\ nextId' = nextId + 1
              /\ Send(r, UserCreated)
  /\ UNCHANGED <<env, ops, op, body>>

(***************************************************************************)
(* loginUser                                                               *)
(***************************************************************************)
\* (a token signed with an expiry)
JwtSignExpiring(row) ==
  [payload |-> [id |-> row.id, username |-> row.username, email |-> row.email,
                exp |-> "1h"],
   secret |-> "JWT_SECRET"]

\* jwt.sign({id, username, email}, JWT_SECRET)
JwtSign(row) ==
  [payload |-> [id |-> row.id, username |-> row.username, email |-> row.email],
   secret |-> "JWT_SECRET"]

\* (the row as the store returned it)
UserResponseWholeRow(row) == row

\* the user object of the login response
UserResponse(row) ==
  [id |-> row.id, username |-> row.username, email |-> row.email,
   handle |-> row.handle, created_at |-> row.created_at,
   updated_at |-> row.updated_at]

IdentifierAndPasswordRequired ==
  Response(400, [error |-> Text("Identifier and password are required")])

InvalidCredentials == Response(401, [error |-> Text("Invalid credentials")])

LoginSuccess(row) ==
  Response(200, [token |-> JwtSign(row), user |-> UserResponse(row)])

\* `catch (err) { res.status(500).json({ error: "Server error: " + err }) }`
LoginFailure(err) == Response(500, [error |-> Concat(Text("Server error: "), err)])

\* the handler from `user = result.rows[0]` on, for a row the SELECT returned
LoginVerdict(password, row) ==
  IF BcryptCompareThrows(password) THEN LoginFailure(IllegalArguments(password))
  ELSE IF ~BcryptCompare(password.s, row.password_hash) THEN InvalidCredentials
  ELSE LoginSuccess(row)

\* (a login that tries every row and signs for any of them)
LoginAnswersAnyVerifies(table, b) ==
  LET rows == SelectByIdentifier(table, PgText(b.identifier))
  IN  IF \E row \in rows : BcryptCompare(b.password.s, row.password_hash)
        THEN {LoginSuccess(row) : row \in rows}
        ELSE {InvalidCredentials}

\* every answer the handler can give to body b once the SELECT has run on
\* `table`: rows[0] is whichever matching row the store returns first
LoginAnswers(table, b) ==
  LET rows == SelectByIdentifier(table, PgText(b.identifier))
  IN  IF rows = {} THEN {InvalidCredentials}
      ELSE {LoginVerdict(b.password, row) : row \in rows}

\* the handler up to its first await (`await pool.query`)
LoginRecv(r, b) ==
  /\ Accept(r, "login", b)
  /\ IF Falsy(b.identifier) \/ Falsy(b.password)
       THEN Send(r, IdentifierAndPasswordRequired)
       ELSE Suspend(r, "store")
  /\ UNCHANGED <<users, nextId>>

\* (a login that stamps the rows it has looked at)
LoginStoreTouching(r) ==
  /\ pc[r] = "store"
  /\ op[r] = "login"
  /\ \/ /\ QueryFails
        /\ Settle(r, Rejected(ConnectionError))
        /\ Send(r, LoginFailure(ConnectionError))
        /\ UNCHANGED users
     \/ /\ Settle(r, Resolved)
        /\ \E answer \in LoginAnswers(users, body[r]) : Send(r, answer)
        /\ LET rows == SelectByIdentifier(users, PgText(body[r].identifier))
           IN  users' = (users \ rows) \cup
                 {[u EXCEPT !.updated_at = CurrentTimestamp(nextId)] : u \in rows}
  /\ UNCHANGED <<env, nextId, ops, op, body>>

\* the SELECT returns, bcrypt.compare settles (it touches nothing shared) and
\* the handler answers
LoginStore(r) ==
  /\ pc[r] = "store"
  /\ op[r] = "login"
  /\ \/ /\ QueryFails
        /\ Settle(r, Rejected(ConnectionError))
        /\ Send(r, LoginFailure(ConnectionError))
     \/ /\ Settle(r, Resolved)
        /\ \E answer \in LoginAnswers(users, body[r]) : Send(r, answer)
  /\ UNCHANGED <<env, users, nextId, ops, op, body>>

(***************************************************************************)
(* checkUsernameAvailability, checkEmailAvailability,                      *)
(* checkHandleAvailability                                                 *)
(***************************************************************************)
CheckHandlers == {"checkUsername", "checkEmail", "checkHandle"}

\* the body field a check reads, which is also the column it queries
CheckColumn(handler) ==
  CASE handler = "checkUsername" -> "username"
    [] handler = "checkEmail" -> "email"
    [] handler = "checkHandle" -> "handle"

CheckRequired(handler) ==
  CASE handler = "checkUsername" ->
         Text("Username is required and must be a non-empty string")
    [] handler = "checkEmail" ->
         Text("Email is required and must be a non-empty string")
    [] handler = "checkHandle" ->
         Text("Handle is required and it must be a non-empty string")

\* the literal "<file>:<line> <name> => Server Error => ", in three pieces
CheckServerError(handler) ==
  CASE handler = "checkUsername" ->
         <<"user-validation.controller.ts:22 checkUsernameAvailability => ",
           "Server Error", " => ">>
    [] handler = "checkEmail" ->
         <<"user-validation.controller.ts:62 checkEmailAvailability => ",
           "Server Error", " => ">>
    [] handler = "checkHandle" ->
         <<"user-validation.controller.ts:112 checkHandleAvailability => ",
           "Server Error", " => ">>

\* `!v || typeof v !== 'string' || v.trim() === ''`
CheckInvalid(v) == Falsy(v) \/ ~IsString(v) \/ TrimsToEmpty(v)

CheckBody(handler, v) == CheckColumn(handler) :> v

\* res.json({<column>, exists, available: !exists}), with status 200
CheckResult(handler, v, exists) ==
  Response(200, (CheckColumn(handler) :> v) @@
                [exists |-> exists, available |-> ~exists])

\* (a failure reported without its cause)
CheckFailureGeneric(handler, e) ==
  Response(500, [error |-> Text("Server Error")])

\* `catch (e) { res.status(500).json({ error: "<file>:<line> <name> => Server Error => " + e }) }`
CheckFailure(handler, e) ==
  Response(500, [error |-> Concat(CheckServerError(handler), e)])

\* checkHandleAvailability calls res.json inside `if (NODE_ENVIRONMENT.isDev)`,
\* the other two checks call it after that block
Responds(handler) == handler = "checkHandle" => IsDev

\* the handler up to its first await (`await pool.query`)
CheckRecv(r, handler, v) ==
  /\ Accept(r, handler, CheckBody(handler, v))
  /\ IF CheckInvalid(v)
       THEN Send(r, Response(400, [error |-> CheckRequired(handler)]))
       ELSE Suspend(r, "store")
  /\ UNCHANGED <<users, nextId>>

\* (a check that reserves the value it finds free)
CheckStoreReserving(r) ==
  /\ pc[r] = "store"
  /\ op[r] \in CheckHandlers
  /\ LET v == body[r][CheckColumn(op[r])]
         exists == SelectByColumn(users, CheckColumn(op[r]), v.s) # {}
     IN  \/ /\ QueryFails
            /\ Settle(r, Rejected(ConnectionError))
            /\ Send(r, CheckFailure(op[r], ConnectionError))
            /\ UNCHANGED <<users, nextId>>
         \/ /\ Settle(r, Resolved)
            /\ IF Responds(op[r])
                 THEN Send(r, CheckResult(op[r], v, exists))
                 ELSE Return(r)
            /\ IF exists
                 THEN UNCHANGED <<users, nextId>>
                 ELSE /\ users' = users \cup {NewRow(v.s, v.s, <<>>, v.s)}
                      /\ nextId' = nextId + 1
  /\ UNCHANGED <<env, ops, op, body>>

\* the SELECT returns and the handler answers
CheckStore(r) ==
  /\ pc[r] = "store"
  /\ op[r] \in CheckHandlers
  /\ LET v == body[r][CheckColumn(op[r])]
         exists == SelectByColumn(users, CheckColumn(op[r]), v.s) # {}
     IN  \/ /\ QueryFails
            /\ Settle(r, Rejected(ConnectionError))
            /\ Send(r, CheckFailure(op[r], ConnectionError))
         \/ /\ Settle(r, Resolved)
            /\ IF Responds(op[r])
                 THEN Send(r, CheckResult(op[r], v, exists))
                 ELSE Return(r)
  /\ UNCHANGED <<env, users, nextId, ops, op, body>>

(***************************************************************************)
(* healthCheck                                                             *)
(***************************************************************************)
HealthOk == Response(200, [server |-> Text("ok"), database |-> Text("ok")])

\* (a failure reported without its details)
HealthErrorBare(error) ==
  Response(500, [server |-> Text("ok"), database |-> Text("error")])

\* `details: error instanceof Error ? error.message : "Unknown error"`
HealthError(error) ==
  Response(500, [server |-> Text("ok"), database |-> Text("error"),
                 details |-> ErrorMessage(error)])

\* the handler up to its first await (`await pool.query("SELECT 1")`)
HealthRecv(r) ==
  /\ Accept(r, "health", NoBody)
  /\ Suspend(r, "store")
  /\ UNCHANGED <<users, nextId>>

\* the probe query settles and the handler answers
HealthStore(r) ==
  /\ pc[r] = "store"
  /\ op[r] = "health"
  /\ \/ /\ QueryFails
        /\ Settle(r, Rejected(ConnectionError))
        /\ Send(r, HealthError(ConnectionError))
     \/ /\ Settle(r, Resolved)
        /\ Send(r, HealthOk)
  /\ UNCHANGED <<env, users, nextId, ops, op, body>>

(***************************************************************************)
(* The environment: connections end.                                       *)
(***************************************************************************)
\* the exchange is over and the slot takes the next request
Close(r) ==
  /\ pc[r] \in {"done", "escaped", "returned"}
  /\ op' = [op EXCEPT ![r] = "none"]
  /\ body' = [body EXCEPT ![r] = NoBody]
  /\ pc' = [pc EXCEPT ![r] = "idle"]
  /\ query' = [query EXCEPT ![r] = NoQuery]
  /\ res' = [res EXCEPT ![r] = NoRes]
  /\ UNCHANGED <<env, users, nextId, ops>>

(***************************************************************************)
(* Inputs.                                                                 *)
(***************************************************************************)
\* two names; the second is made of SQL metacharacters (the statements take
\* their values as parameters $1..$4, apart from the statement text)
Names == {<<"a">>, <<"'", ";">>}

\* well-formed field values
StringValues == {Str(n) : n \in Names}

\* JSON values of every kind the handlers tell apart: absent, empty,
\* blank, a proper string, not a string
JsonValues == {Undefined, Str(<<>>), Str(<<" ">>), Str(<<"a">>), Num(1)}

\* values to look up: those, and a proper string in another case and with
\* a leading blank
ProbeValues == JsonValues \cup {Str(<<"A">>), Str(<<" ", "a">>)}

RegisterBodies(values) ==
  [username : values, email : values, password : values, handle : values]

LoginBodies(values) == [identifier : values, password : values]

Step(r, values, probes) ==
  \/ \E b \in RegisterBodies(values) : RegisterRecv(r, b)
  \/ RegisterStore(r)
  \/ \E b \in LoginBodies(values) : LoginRecv(r, b)
  \/ LoginStore(r)
  \/ \E handler \in CheckHandlers, v \in probes : CheckRecv(r, handler, v)
  \/ CheckStore(r)
  \/ HealthRecv(r)
  \/ HealthStore(r)
  \/ Close(r)

\* concurrent requests with well-formed bodies
Next == \E r \in Reqs : Step(r, StringValues, StringValues)

Spec == Init /\ [][Next]_vars

\* one request at a time, with any JSON value in any field
NextInputs == Step(1, JsonValues, ProbeValues)

SpecInputs == Init /\ [][NextInputs]_vars

\* one request at a time, with strings at the edges of validation and of the
\* store: padded with blanks, and longer than a column is wide
LongName == [i \in 1..LongLen |-> "x"]

EdgeValues == {Str(<<"a">>), Str(<<" ", "a", " ">>), Str(LongName)}

NextEdge == Step(1, EdgeValues, EdgeValues)

SpecEdge == Init /\ [][NextEdge]_vars

\* tables that earlier registrations have left: none, one user, and two
\* users of whom each has for email the username of the other
UserA ==
  [id |-> 1, username |-> <<"a">>, email |-> <<"'", ";">>,
   password_hash |-> BcryptHash(<<"a">>, "1"), handle |-> <<"a">>,
   created_at |-> CurrentTimestamp(1), updated_at |-> CurrentTimestamp(1)]

UserB ==
  [id |-> 2, username |-> <<"'", ";">>, email |-> <<"a">>,
   password_hash |-> BcryptHash(<<"'", ";">>, "1"), handle |-> <<"'", ";">>,
   created_at |-> CurrentTimestamp(2), updated_at |-> CurrentTimestamp(2)]

StoredTables == {{}, {UserA}, {UserA, UserB}}

\* the server takes its first request of the run with such a table
InitStored ==
  /\ env \in Envs
  /\ users \in StoredTables
  /\ nextId = Cardinality(users) + 1
  /\ ops = 0
  /\ op = [r \in Reqs |-> "none"]
  /\ body = [r \in Reqs |-> NoBody]
  /\ pc = [r \in Reqs |-> "idle"]
  /\ query = [r \in Reqs |-> NoQuery]
  /\ res = [r \in Reqs |-> NoRes]

\* concurrent requests of every kind on such a table
SpecStored == InitStored /\ [][Next]_vars

\* a password that is nobody's
WrongPassword == Str(<<"w">>)

\* concurrent logins and checks only: nothing writes to the table
NextReads ==
  \E r \in Reqs :
    \/ \E b \in [identifier : StringValues,
                  password : StringValues \cup {WrongPassword}] : LoginRecv(r, b)
    \/ LoginStore(r)
    \/ \E handler \in CheckHandlers, v \in StringValues : CheckRecv(r, handler, v)
    \/ CheckStore(r)
    \/ Close(r)

SpecReads == InitStored /\ [][NextReads]_vars

\* two clients have each asked whether the same username is free, on an
\* empty table, and both have been told that it is
InitChecked ==
  /\ env \in Envs
  /\ users = {}
  /\ nextId = 1
  /\ ops = 0
  /\ \E u \in StringValues :
       /\ op = [r \in Reqs |-> "checkUsername"]
       /\ body = [r \in Reqs |-> CheckBody("checkUsername", u)]
       /\ pc = [r \in Reqs |-> "done"]
       /\ query = [r \in Reqs |-> Resolved]
       /\ res = [r \in Reqs |-> CheckResult("checkUsername", u, FALSE)]

\* from there on the clients register
NextReserve ==
  \E r \in Reqs :
    \/ \E b \in RegisterBodies(StringValues) : RegisterRecv(r, b)
    \/ RegisterStore(r)
    \/ Close(r)

SpecReserve == InitChecked /\ [][NextReserve]_vars

\* an awaited promise settles: the store answers or the call rejects, and
\* the handler is resumed
Fairness ==
  /\ WF_vars(RegisterStore(1))
  /\ WF_vars(LoginStore(1))
  /\ WF_vars(CheckStore(1))
  /\ WF_vars(HealthStore(1))

SpecLive == SpecInputs /\ Fairness

(***************************************************************************)
(* Vocabulary of the properties.                                           *)
(***************************************************************************)
\* request r has been answered by `handler`
Answered(r, handler) == op[r] = handler /\ pc[r] = "done"

\* the step in which `handler` answers request r after its store call
AnswersFromStore(r, handler) ==
  op[r] = handler /\ pc[r] = "store" /\ pc'[r] = "done"

\* the password v verifies against a stored hash
Verifies(v, hash) == IsString(v) /\ BcryptCompare(v.s, hash)

\* the username or the email of a row equals the identifier v exactly
IdentifiedBy(row, v) ==
  IsString(v) /\ (row.username = v.s \/ row.email = v.s)

\* both fields of a login body are present
LoginFieldsPresent(b) == ~Falsy(b.identifier) /\ ~Falsy(b.password)

\* a register body shares a uniqueness key with a row, or with another body
KeyTaken(table, b) ==
  \E u \in table :
    u.username = b.username.s \/ u.email = b.email.s \/ u.handle = b.handle.s

Collide(b1, b2) ==
  \/ b1.username = b2.username
  \/ b1.email = b2.email
  \/ b1.handle = b2.handle

UserKeys == {"id", "username", "email", "handle", "created_at", "updated_at"}

\* the step in which the handler of request r is resumed after its store call
LeavesStore(r) == pc[r] = "store" /\ pc'[r] # "store"

\* a field is missing or is the empty string
MissingOrEmpty(v) == v.t = "undefined" \/ (IsString(v) /\ v.s = <<>>)

\* the handlers that only read the store
ReadOnlyHandlers == {"login"} \cup CheckHandlers

\* a text ends with the text e; a text has `piece` among its pieces
EndsWith(text, e) ==
  /\ Len(text) >= Len(e)
  /\ SubSeq(text, Len(text) - Len(e) + 1, Len(text)) = e

Contains(text, piece) == \E i \in 1..Len(text) : text[i] = piece

(***************************************************************************)
(* C1.  In every successful login response the user object has exactly the *)
(* keys id, username, email, handle, created_at, updated_at, each with the *)
(* value of a stored row that the identifier matches; password_hash and    *)
(* password never appear in it.                                            *)
(***************************************************************************)
C1_LoginUserObject ==
  \A r \in Reqs :
    (Answered(r, "login") /\ res[r].status = 200) =>
      /\ DOMAIN res[r].body = {"token", "user"}
      /\ DOMAIN res[r].body.user = UserKeys
      /\ "password_hash" \notin DOMAIN res[r].body.user
      /\ "password" \notin DOMAIN res[r].body.user
      /\ \E row \in users :
           /\ IdentifiedBy(row, body[r].identifier)
           /\ \A k \in UserKeys : res[r].body.user[k] = row[k]

\* a login by email, of a user whose username differs from the email,
\* has succeeded
C1_Witness ==
  \E r \in Reqs, row \in users :
    /\ Answered(r, "login")
    /\ res[r].status = 200
    /\ body[r].identifier.s = row.email
    /\ body[r].identifier.s # row.username
    /\ res[r].body.user.id = row.id

(***************************************************************************)
(* C2.  Login answers 200 with a token only if some stored row is          *)
(* identified by the identifier and its password_hash verifies against the *)
(* password; when no such row exists, both fields are present and the      *)
(* store query did not fail, the answer is 401 without a token.            *)
(***************************************************************************)
C2_TokenOnlyIfVerifiedElse401 ==
  \A r \in Reqs :
    (/\ Answered(r, "login")
     /\ LoginFieldsPresent(body[r])
     /\ res[r] # LoginFailure(ConnectionError)) =>
      LET verified ==
            \E row \in users :
              /\ IdentifiedBy(row, body[r].identifier)
              /\ Verifies(body[r].password, row.password_hash)
      IN  /\ res[r].status = 200 => verified
          /\ ~verified => /\ res[r].status = 401
                          /\ "token" \notin DOMAIN res[r].body

(***************************************************************************)
(* C3.  A login with a wrong password for a registered user and a login    *)
(* for a user that does not exist get the same answer, 401 with the body   *)
(* {error: "Invalid credentials"}.                                         *)
(***************************************************************************)
C3_WrongPasswordLikeNoSuchUser ==
  \A r \in Reqs :
    (/\ Answered(r, "login")
     /\ LoginFieldsPresent(body[r])
     /\ res[r] # LoginFailure(ConnectionError)) =>
      LET rows == {row \in users : IdentifiedBy(row, body[r].identifier)}
          noSuchUser == rows = {}
          wrongPassword ==
            /\ rows # {}
            /\ \A row \in rows : ~Verifies(body[r].password, row.password_hash)
      IN  (noSuchUser \/ wrongPassword) => res[r] = InvalidCredentials

(***************************************************************************)
(* C4.  Whatever other users the store holds, a login of a registered user *)
(* by username or by email with the password that verifies against the     *)
(* user's row answers 200 with a token and a user object without           *)
(* password_hash (the store query not failing).                            *)
(***************************************************************************)
C4_RegisteredUserLogsIn ==
  [][\A r \in Reqs :
       (/\ AnswersFromStore(r, "login")
        /\ res'[r] # LoginFailure(ConnectionError)
        /\ \E row \in users :
             /\ IdentifiedBy(row, body[r].identifier)
             /\ Verifies(body[r].password, row.password_hash)) =>
         /\ res'[r].status = 200
         /\ "token" \in DOMAIN res'[r].body
         /\ "password_hash" \notin DOMAIN res'[r].body.user]_vars

(***************************************************************************)
(* C5.  No two distinct rows of the users table share a username, an       *)
(* email or a handle, in any reachable state.                              *)
(***************************************************************************)
C5_UniqueKeys ==
  \A u, v \in users :
    u # v => /\ u.username # v.username
             /\ u.email # v.email
             /\ u.handle # v.handle

\* the table holds two rows and a registration has been refused as a duplicate
C5_Witness ==
  /\ Cardinality(users) = 2
  /\ \E r \in Reqs :
       Answered(r, "register") /\ res[r] = RegisterFailure(UniqueViolation)

(***************************************************************************)
(* C6.  Of the registrations in flight together that collide on a username,*)
(* an email or a handle, at most one is answered 201; a registration       *)
(* answered 201 adds exactly one row and one answered otherwise adds none. *)
(***************************************************************************)
C6_OneWinnerAmongColliding ==
  [][\A r \in Reqs :
       AnswersFromStore(r, "register") =>
         IF res'[r] = UserCreated
           THEN /\ users \subseteq users'
                /\ Cardinality(users') = Cardinality(users) + 1
                /\ \A q \in Reqs \ {r} :
                     (Answered(q, "register") /\ Collide(body[q], body[r])) =>
                       res[q] # UserCreated
           ELSE users' = users]_vars

\* two colliding registrations are answered: one 201, the other refused by
\* the unique constraint
C6_Witness ==
  \E r, q \in Reqs :
    /\ r # q
    /\ Answered(r, "register") /\ res[r] = UserCreated
    /\ Answered(q, "register") /\ res[q] = RegisterFailure(UniqueViolation)
    /\ Collide(body[r], body[q])

(***************************************************************************)
(* C7.  A registration with four valid fields reaches the store, and when  *)
(* its username, email and handle are unused and the store call does not   *)
(* fail it is answered 201 {message: "User created successfully"}; the     *)
(* table then holds exactly one row with that email, whose password_hash   *)
(* verifies against the password and is not the password itself.           *)
(***************************************************************************)
ValidRegisterBody(b) ==
  \A i \in 1..Len(RegisterFields) :
    IsString(b[RegisterFields[i]]) /\ ~TrimsToEmpty(b[RegisterFields[i]])

C7_RegisterStoresVerifiableHash ==
  [][\A r \in Reqs :
       /\ (pc[r] = "idle" /\ op'[r] = "register" /\ ValidRegisterBody(body'[r])) =>
            pc'[r] = "store"
       /\ (/\ AnswersFromStore(r, "register")
           /\ ~KeyTaken(users, body[r])
           /\ res'[r] # RegisterFailure(ConnectionError)) =>
            /\ res'[r] = UserCreated
            /\ LET rows == SelectByColumn(users', "email", body[r].email.s)
               IN  /\ Cardinality(rows) = 1
                   /\ \A row \in rows :
                        /\ BcryptCompare(body[r].password.s, row.password_hash)
                        /\ row.password_hash # body[r].password.s]_vars

\* a registration has been answered 201 and its row is in the table
C7_Witness ==
  \E r \in Reqs :
    /\ Answered(r, "register")
    /\ res[r] = UserCreated
    /\ \E row \in users :
         /\ row.email = body[r].email.s
         /\ BcryptCompare(body[r].password.s, row.password_hash)

(***************************************************************************)
(* C8.  A registration in which a field is missing or trims to the empty   *)
(* string is answered 400 with a `message`, and never reaches the store.   *)
(***************************************************************************)
MissingOrBlank(v) == v.t = "undefined" \/ (IsString(v) /\ TrimsToEmpty(v))

C8_RejectsMissingOrBlank ==
  \A r \in Reqs :
    (/\ op[r] = "register"
     /\ \E i \in 1..Len(RegisterFields) : MissingOrBlank(body[r][RegisterFields[i]])) =>
      /\ pc[r] = "done"
      /\ res[r].status = 400
      /\ "message" \in DOMAIN res[r].body

(***************************************************************************)
(* C9.  A registration in which a field is present but is not a string is  *)
(* answered 400, as for an absent or empty field.                          *)
(***************************************************************************)
PresentNonString(v) == v.t # "undefined" /\ ~IsString(v)

C9_RejectsNonString ==
  \A r \in Reqs :
    (/\ op[r] = "register"
     /\ \E i \in 1..Len(RegisterFields) : PresentNonString(body[r][RegisterFields[i]])) =>
      /\ pc[r] = "done"
      /\ res[r].status = 400

C11_NoExceptionEscapes ==
  \A r \in Reqs :
    /\ pc[r] # "escaped"
    /\ pc[r] # "returned"
    /\ pc[r] = "done" => res[r].status # 0

(***************************************************************************)
(* C12.  A handle check with a non-empty string handle that waits for the  *)
(* store is eventually answered, and when the store call has succeeded the *)
(* answer is 200 {handle, exists, available}, in every environment.        *)
(***************************************************************************)
C12_HandleCheckAnswered ==
  \A n \in 1..MaxOps :
    (ops = n /\ op[1] = "checkHandle" /\ pc[1] = "store") ~>
      (/\ ops = n
       /\ op[1] = "checkHandle"
       /\ pc[1] = "done"
       /\ query[1] = Resolved =>
            /\ res[1].status = 200
            /\ DOMAIN res[1].body = {"handle", "exists", "available"})

(***************************************************************************)
(* C13.  A check of any kind whose store call succeeds answers 200 with    *)
(* the value as it was sent, exists true exactly when a row has that value *)
(* in the column of that kind (equal character by character), and          *)
(* available the negation of exists.                                       *)
(***************************************************************************)
C13_CheckAnswersExactMatch ==
  [][\A r \in Reqs :
       (op[r] \in CheckHandlers /\ LeavesStore(r) /\ query'[r] = Resolved) =>
         LET column == CheckColumn(op[r])
             v == body[r][column]
         IN  /\ res'[r].status = 200
             /\ DOMAIN res'[r].body = {column, "exists", "available"}
             /\ res'[r].body[column] = v
             /\ res'[r].body.exists = (\E u \in users : u[column] = v.s)
             /\ res'[r].body.available = ~res'[r].body.exists]_vars

(***************************************************************************)
(* C14.  A username check or an email check whose store call succeeds      *)
(* answers exists = true, available = false for the username or email of a *)
(* registration that has been answered 201, and available = true, exists = *)
(* false for a value that no row has in that column.                       *)
(***************************************************************************)
C14_RegisteredIsTaken ==
  [][\A r \in Reqs :
       (/\ op[r] \in {"checkUsername", "checkEmail"}
        /\ LeavesStore(r)
        /\ query'[r] = Resolved) =>
         LET column == CheckColumn(op[r])
             v == body[r][column]
         IN  /\ (\E q \in Reqs : /\ Answered(q, "register")
                                 /\ res[q] = UserCreated
                                 /\ body[q][column] = v) =>
                  /\ res'[r].body.exists = TRUE
                  /\ res'[r].body.available = FALSE
             /\ (\A u \in users : u[column] # v.s) =>
                  /\ res'[r].body.exists = FALSE
                  /\ res'[r].body.available = TRUE]_vars

\* an email check has found the email of a registration answered 201, whose
\* username is another string
C14_Witness ==
  \E r, q \in Reqs :
    /\ Answered(q, "register")
    /\ res[q] = UserCreated
    /\ body[q].email # body[q].username
    /\ Answered(r, "checkEmail")
    /\ body[r].email = body[q].email
    /\ res[r].status = 200
    /\ res[r].body.exists = TRUE

(***************************************************************************)
(* C15.  A check whose value is missing, is not a string or trims to the   *)
(* empty string is answered 400 {error: "<Kind> is required and must be a  *)
(* non-empty string"}, Kind being Username, Email or Handle, and its       *)
(* handler makes no store call.                                            *)
(***************************************************************************)
KindRequired(handler) ==
  CASE handler = "checkUsername" ->
         Text("Username is required and must be a non-empty string")
    [] handler = "checkEmail" ->
         Text("Email is required and must be a non-empty string")
    [] handler = "checkHandle" ->
         Text("Handle is required and must be a non-empty string")

C15_CheckRejectsInvalid ==
  \A r \in Reqs :
    (op[r] \in CheckHandlers) =>
      LET v == body[r][CheckColumn(op[r])]
      IN  (v.t = "undefined" \/ ~IsString(v) \/ TrimsToEmpty(v)) =>
            /\ pc[r] = "done"
            /\ res[r] = Response(400, [error |-> KindRequired(op[r])])
            /\ query[r] = NoQuery

(***************************************************************************)
(* C16.  A successful login response carries one token; its claims are the *)
(* id, username and email of a stored row that the identifier matches and  *)
(* whose password_hash verifies against the password, the same row as the  *)
(* user object, and there is no expiry among them.                         *)
(***************************************************************************)
C16_TokenClaims ==
  \A r \in Reqs :
    (Answered(r, "login") /\ res[r].status = 200) =>
      /\ "token" \in DOMAIN res[r].body
      /\ "exp" \notin DOMAIN res[r].body.token.payload
      /\ \E row \in users :
           /\ IdentifiedBy(row, body[r].identifier)
           /\ Verifies(body[r].password, row.password_hash)
           /\ res[r].body.token.payload.id = row.id
           /\ res[r].body.token.payload.username = row.username
           /\ res[r].body.token.payload.email = row.email
           /\ res[r].body.user.id = row.id

\* the second of two users has logged in and holds a token
C16_Witness ==
  \E r \in Reqs :
    /\ Answered(r, "login")
    /\ res[r].status = 200
    /\ Cardinality(users) = 2
    /\ \E row \in users :
         /\ res[r].body.token.payload.id = row.id
         /\ \E other \in users : other.id < row.id

(***************************************************************************)
(* C17.  No step of a login or of a check changes the users table or the   *)
(* sequence of ids, whatever the body and whatever the answer.             *)
(***************************************************************************)
C17_ReadOnly ==
  [][\A r \in Reqs :
       (/\ pc'[r] # pc[r]
        /\ (op[r] \in ReadOnlyHandlers \/ op'[r] \in ReadOnlyHandlers)) =>
         /\ users' = users
         /\ nextId' = nextId]_vars

\* a login has been refused with 401 by a table that holds the user
C17_Witness ==
  /\ Answered(1, "login")
  /\ res[1] = InvalidCredentials
  /\ \E row \in users : IdentifiedBy(row, body[1].identifier)

(***************************************************************************)
(* C18.  Every row of the users table stays in it as it is, and the table  *)
(* gains a row only in the step in which a registration is answered 201.   *)
(***************************************************************************)
C18_RowsAreImmutable ==
  [][/\ users \subseteq users'
     /\ users' # users =>
          \E r \in Reqs : /\ op[r] = "register"
                          /\ LeavesStore(r)
                          /\ res'[r] = UserCreated
                          /\ Cardinality(users' \ users) = 1]_vars

\* a user named with SQL metacharacters is registered beside another one and
\* a login with that name has been answered since
C18_Witness ==
  /\ Cardinality(users) = 2
  /\ \E row \in users : row.username = <<"'", ";">>
  /\ \E r \in Reqs :
       /\ Answered(r, "login")
       /\ body[r].identifier.s = <<"'", ";">>
       /\ query[r] = Resolved

(***************************************************************************)
(* C19.  A login whose identifier or password is missing or is the empty   *)
(* string is answered 400 with an `error`, and its handler makes no store  *)
(* call.                                                                   *)
(***************************************************************************)
C19_LoginRejectsMissing ==
  \A r \in Reqs :
    (/\ op[r] = "login"
     /\ (MissingOrEmpty(body[r].identifier) \/ MissingOrEmpty(body[r].password))) =>
      /\ pc[r] = "done"
      /\ res[r].status = 400
      /\ "error" \in DOMAIN res[r].body
      /\ query[r] = NoQuery

\* a login with an identifier and an empty password has been answered
C19_Witness ==
  /\ Answered(1, "login")
  /\ body[1].identifier = Str(<<"a">>)
  /\ body[1].password = Str(<<>>)
  /\ res[1].status = 400

(***************************************************************************)
(* C20.  When the store call of a registration, a login or a check is      *)
(* rejected, the answer is 500 with an `error` text that ends with the     *)
(* text of the error, for a check that text has the piece "Server Error",  *)
(* and the users table is left as it was.                                  *)
(***************************************************************************)
C20_StoreFailureIs500 ==
  [][\A r \in Reqs :
       (/\ op[r] \in {"register", "login"} \cup CheckHandlers
        /\ LeavesStore(r)
        /\ query'[r].state = "rejected") =>
         /\ pc'[r] = "done"
         /\ res'[r].status = 500
         /\ DOMAIN res'[r].body = {"error"}
         /\ EndsWith(res'[r].body.error, query'[r].error)
         /\ op[r] \in CheckHandlers => Contains(res'[r].body.error, "Server Error")
         /\ users' = users]_vars

\* a check and a login have been answered 500 after their store calls failed,
\* the table holding a row
C20_Witness ==
  \E r, q \in Reqs :
    /\ users # {}
    /\ op[r] \in CheckHandlers
    /\ pc[r] = "done"
    /\ query[r] = Rejected(ConnectionError)
    /\ res[r].status = 500
    /\ Answered(q, "login")
    /\ query[q] = Rejected(ConnectionError)

(***************************************************************************)
(* C21.  On a table that nothing writes to, any two checks of the same     *)
(* kind and value that have been answered 200, one after the other or in   *)
(* flight together, carry the same exists and the same available.          *)
(***************************************************************************)
C21_ChecksAgree ==
  \A r, q \in Reqs :
    (/\ op[r] \in CheckHandlers
     /\ op[q] = op[r]
     /\ body[q] = body[r]
     /\ pc[r] = "done" /\ res[r].status = 200
     /\ pc[q] = "done" /\ res[q].status = 200) =>
      /\ res[r].body.exists = res[q].body.exists
      /\ res[r].body.available = res[q].body.available

\* two checks of a username that a row has have both been answered
C21_Witness ==
  \E r, q \in Reqs :
    /\ r # q
    /\ Answered(r, "checkUsername") /\ Answered(q, "checkUsername")
    /\ body[r] = body[q]
    /\ res[r].status = 200 /\ res[q].status = 200
    /\ res[r].body.exists = TRUE

(***************************************************************************)
(* C22.  A registration whose username, email and handle no row has when   *)
(* its INSERT runs, beside whatever other registrations are in flight, is  *)
(* answered 201 unless the store call fails, and the table then holds      *)
(* exactly one row for it and for every registration answered 201 before.  *)
(***************************************************************************)
RowsOf(table, b) ==
  {u \in table : /\ u.username = b.username.s
                 /\ u.email = b.email.s
                 /\ u.handle = b.handle.s}

C22_DistinctRegistersAllSucceed ==
  [][\A r \in Reqs :
       (/\ AnswersFromStore(r, "register")
        /\ query'[r] # Rejected(ConnectionError)
        /\ ~KeyTaken(users, body[r])) =>
         /\ res'[r] = UserCreated
         /\ Cardinality(RowsOf(users', body[r])) = 1
         /\ \A q \in Reqs \ {r} :
              (Answered(q, "register") /\ res[q] = UserCreated) =>
                Cardinality(RowsOf(users', body[q])) = 1]_vars

\* two registrations that share no key are the only requests so far and
\* both have been answered 201
C22_Witness ==
  \E r, q \in Reqs :
    /\ r # q
    /\ ops = 2
    /\ Answered(r, "register") /\ res[r] = UserCreated
    /\ Answered(q, "register") /\ res[q] = UserCreated
    /\ ~Collide(body[r], body[q])
    /\ Cardinality(users) = 2

(***************************************************************************)
(* C23.  After a login for a registered user has been refused with 401 for *)
(* a wrong password, a login that identifies that user with the password   *)
(* that verifies is answered 200 (the store call not failing).             *)
(***************************************************************************)
C23_NoLockout ==
  [][\A r \in Reqs :
       (/\ AnswersFromStore(r, "login")
        /\ query'[r] = Resolved
        /\ \E row \in users :
             /\ IdentifiedBy(row, body[r].identifier)
             /\ Verifies(body[r].password, row.password_hash)
             /\ \E q \in Reqs \ {r} :
                  /\ Answered(q, "login")
                  /\ res[q] = InvalidCredentials
                  /\ IdentifiedBy(row, body[q].identifier)
                  /\ \A u \in users :
                       ~Verifies(body[q].password, u.password_hash)) =>
         res'[r].status = 200]_vars

(***************************************************************************)
(* C24.  A registration whose username is longer than the column is wide   *)
(* (300 characters for 255) passes validation and reaches the store, where *)
(* it is refused: the answer is 500 with an `error`, and no row is added.  *)
(***************************************************************************)
C24_LongFailsAtStore ==
  [][\A r \in Reqs :
       /\ (/\ pc[r] = "idle"
           /\ op'[r] = "register"
           /\ ValidRegisterBody(body'[r])
           /\ Len(body'[r].username.s) = LongLen) => pc'[r] = "store"
       /\ (/\ AnswersFromStore(r, "register")
           /\ Len(body[r].username.s) = LongLen) =>
            /\ res'[r].status = 500
            /\ "error" \in DOMAIN res'[r].body
            /\ query'[r] \in {Rejected(ValueTooLong), Rejected(ConnectionError)}
            /\ users' = users]_vars

\* a registration with a username of 300 characters has been refused by the
\* store for its length
C24_Witness ==
  /\ Answered(1, "register")
  /\ Len(body[1].username.s) = LongLen
  /\ Len(body[1].email.s) < VarcharLen
  /\ query[1] = Rejected(ValueTooLong)
  /\ res[1] = RegisterFailure(ValueTooLong)

(***************************************************************************)
(* C25.  The health check answers 200 {server: "ok", database: "ok"},      *)
(* without details, exactly when its probe query succeeds, and 500         *)
(* {server: "ok", database: "error", details} with a text for details      *)
(* exactly when it fails; it never changes the users table.                *)
(***************************************************************************)
C25_HealthReportsProbe ==
  [][\A r \in Reqs :
       /\ (pc'[r] # pc[r] /\ (op[r] = "health" \/ op'[r] = "health")) =>
            users' = users
       /\ (op[r] = "health" /\ LeavesStore(r)) =>
            /\ pc'[r] = "done"
            /\ res'[r].body.server = Text("ok")
            /\ query'[r] = Resolved <=> res'[r].status = 200
            /\ query'[r].state = "rejected" <=> res'[r].status = 500
            /\ res'[r].status = 200 =>
                 /\ DOMAIN res'[r].body = {"server", "database"}
                 /\ res'[r].body.database = Text("ok")
            /\ res'[r].status = 500 =>
                 /\ DOMAIN res'[r].body = {"server", "database", "details"}
                 /\ res'[r].body.database = Text("error")
                 /\ res'[r].body.details = ErrorMessage(query'[r].error)
                 /\ res'[r].body.details # <<>>]_vars

\* one health check has been answered 200 and another 500, the table holding
\* a row
C25_Witness ==
  \E r, q \in Reqs :
    /\ users # {}
    /\ Answered(r, "health") /\ res[r] = HealthOk
    /\ Answered(q, "health") /\ res[q].status = 500
    /\ "details" \in DOMAIN res[q].body

(***************************************************************************)
(* C26.  A login answered 200 carries a token for a row that the           *)
(* identifier matches and whose password_hash verified.  When the          *)
(* identifier is the username of one row and the email of another, the     *)
(* answer is the verdict on one of them alone, the row the store returns   *)
(* first: 200 with a token for that row if the password verifies against   *)
(* it, 401 otherwise, whether or not it verifies against the other row.    *)
(***************************************************************************)
C26_FirstRowDecides ==
  [][\A r \in Reqs :
       (AnswersFromStore(r, "login") /\ query'[r] = Resolved) =>
         LET rows == {row \in users : IdentifiedBy(row, body[r].identifier)}
         IN  /\ res'[r].status = 200 =>
                  \E row \in rows :
                    /\ Verifies(body[r].password, row.password_hash)
                    /\ res'[r].body.token.payload.id = row.id
             /\ Cardinality(rows) >= 2 =>
                  \E first \in rows :
                    IF Verifies(body[r].password, first.password_hash)
                      THEN /\ res'[r].status = 200
                           /\ res'[r].body.token.payload.id = first.id
                           /\ res'[r].body.user.id = first.id
                      ELSE res'[r] = InvalidCredentials]_vars

\* a login has been refused with 401 although its identifier matches two rows
\* and its password verifies against one of them
C26_Witness ==
  \E r \in Reqs :
    /\ Answered(r, "login")
    /\ res[r] = InvalidCredentials
    /\ Cardinality({row \in users : IdentifiedBy(row, body[r].identifier)}) = 2
    /\ \E row \in users :
         /\ IdentifiedBy(row, body[r].identifier)
         /\ Verifies(body[r].password, row.password_hash)

(***************************************************************************)
(* C27.  Two clients have each been told by a check that a username is     *)
(* available, and then register.  No two registrations with the same       *)
(* username are both answered 201: the one whose INSERT runs when a row    *)
(* has the username is answered 500 and adds nothing.                      *)
(***************************************************************************)
C27_NoReservation ==
  [][\A r \in Reqs :
       AnswersFromStore(r, "register") =>
         /\ res'[r] = UserCreated =>
              \A q \in Reqs \ {r} :
                ~(/\ Answered(q, "register")
                  /\ res[q] = UserCreated
                  /\ body[q].username = body[r].username)
         /\ (\E u \in users : u.username = body[r].username.s) =>
              /\ res'[r].status = 500
              /\ users' = users]_vars

\* the two clients have registered the same username and no other request
\* was made: one was answered 201, the other refused as a duplicate
C27_Witness ==
  \E r, q \in Reqs :
    /\ ops = 2
    /\ Answered(r, "register") /\ res[r] = UserCreated
    /\ Answered(q, "register") /\ res[q] = RegisterFailure(UniqueViolation)
    /\ body[q].username = body[r].username
    /\ body[q].email # body[r].email
    /\ body[q].handle # body[r].handle
    /\ Cardinality(users) = 1

BlankOnly(v) == IsString(v) /\ v.s # <<>> /\ TrimsToEmpty(v)

C30_TakenStaysTaken ==
  [][\A r \in Reqs :
       (/\ op[r] \in CheckHandlers
        /\ AnswersFromStore(r, op[r])
        /\ query'[r] = Resolved) =>
         \A q \in Reqs \ {r} :
           (/\ Answered(q, op[r])
            /\ body[q] = body[r]
            /\ res[q].status = 200
            /\ res[q].body.exists = TRUE) =>
             /\ res'[r].status = 200
             /\ res'[r].body.exists = TRUE
             /\ res'[r].body.available = FALSE]_vars

\* two checks of the same email have answered exists = true and the table
\* has gained a row since the run began
C30_Witness ==
  \E r, q \in Reqs :
    /\ r # q
    /\ Answered(r, "checkEmail") /\ Answered(q, "checkEmail")
    /\ body[r] = body[q]
    /\ res[r].status = 200 /\ res[r].body.exists = TRUE
    /\ res[q].status = 200 /\ res[q].body.exists = TRUE
    /\ ops = 3
    /\ \E u \in users : u.id = nextId - 1 /\ u \notin {UserA, UserB}

====
